---- MODULE Spec2Model ----
(***************************************************************************)
(* Interactive Block Diagram Canvas.                                       *)
(*                                                                         *)
(* Seven specifications over one state vector:                             *)
(*   SpecAdapter  the Graph Adapter (diagramToNodes, connectionsToEdges,   *)
(*                nodesToDiagram) applied to schema-conforming diagrams;   *)
(*   SpecServe    the generation endpoint (the serve handler) applied to   *)
(*                one request, environment and provider behaviour;         *)
(*   Spec         the page (Index), the input panel and the canvas         *)
(*                (DiagramCanvas) with the requests in flight;             *)
(*   SpecEdit     the page and the canvas with the edit session of a       *)
(*                BlockNode (edit mode, edit buffers, save and cancel);    *)
(*   SpecReplaceEdit  the same across a generation that succeeds while the *)
(*                canvas is shown;                                         *)
(*   SpecLayout   the Graph Adapter applied to blocks of any category;     *)
(*   SpecOverlap  the page with handleGenerateDiagram called while earlier *)
(*                calls await their response.                              *)
(*                                                                         *)
(* JavaScript objects are records whose DOMAIN is the set of properties    *)
(* that hold a defined value: a property that is absent and a property     *)
(* whose value is undefined are the same record (they are the same under   *)
(* JSON.stringify, which is how the code itself compares and exports).     *)
(***************************************************************************)
EXTENDS Integers, Sequences, FiniteSets, TLC

VARIABLES
    \* ---- Index (src/unnamed/part_001) ----
    nodes,              \* useState([])   : externally-owned node copy
    edges,              \* useState([])   : externally-owned edge copy
    isLoading,          \* useState(false)
    currentDescription, \* useState("")
    hasGenerated,       \* useState(false): DiagramCanvas is mounted iff TRUE
    \* ---- DiagramCanvas (src/src/components/DiagramCanvas.jsx) ----
    cNodes,             \* useNodesState  : the canvas working node set
    cEdges,             \* useEdgesState  : the canvas working edge set
    notify,             \* calls of the page's setNodes/setEdges made while
                        \* the canvas renders, applied by the next render
    crashed,            \* a BlockNode threw while rendering (no error boundary)
    \* ---- requests in flight and the last handler that ran ----
    pending,            \* descriptions of the invocations awaiting a response
    lastOp,             \* the last handler run: its name, arguments and result
    \* ---- BlockNode (src/src/components/BlockNode.jsx), SpecEdit ----
    blockNodes,         \* per edited node, the state of its BlockNode: edit
                        \* mode, edit buffers, annotation shown, new component
    \* ---- SpecServe ----
    sPc, sReq, sEnv, sUp, sResp,
    \* ---- SpecAdapter ----
    aPc, aDiagram, aNodes, aEdges, aOut

uiVars      == <<nodes, edges, isLoading, currentDescription, hasGenerated,
                 cNodes, cEdges, notify, crashed, pending, lastOp>>
serveVars   == <<sPc, sReq, sEnv, sUp, sResp>>
adapterVars == <<aPc, aDiagram, aNodes, aEdges, aOut>>
blockVars   == <<blockNodes>>
vars        == <<uiVars, blockVars, serveVars, adapterVars>>

(***************************************************************************)
(* JavaScript values                                                       *)
(***************************************************************************)
\* the result of reading a property that is absent
Undefined == "undefined"
\* the value null (a Handle without an id reports handleId null)
Null == "null"
\* stand-in for a label that is not a string (a rich label object)
RichLabel == "[object Object]"

\* property names every object literal inherits from Object.prototype: reading
\* one of them from an object that has no own property of that name yields
\* the inherited member, a truthy value
ObjectPrototypeKeys ==
    {"constructor", "toString", "toLocaleString", "valueOf", "hasOwnProperty",
     "isPrototypeOf", "propertyIsEnumerable", "__proto__"}
InheritedMember(name) == [inherited |-> name]

Has(o, f) == f \in DOMAIN o
Get(o, f) == IF f \in DOMAIN o THEN o[f] ELSE Undefined
\* the object made of the listed properties of o that are defined
Pick(o, keys) == [k \in (keys \cap DOMAIN o) |-> o[k]]
\* the object with no defined property
EmptyObject == [k \in {} |-> Undefined]
Falsy(v) == v \in {Undefined, Null, ""}
\* typeof v === "string"
TypeofString(v) == v \notin {Undefined, Null, RichLabel}
\* {...target, ...src} where ownKeys are the own keys of src (those of them
\* that are not in DOMAIN src hold undefined and overwrite the target's)
Spread(target, src, ownKeys) ==
    [k \in ((DOMAIN target \ ownKeys) \cup DOMAIN src) |->
        IF k \in DOMAIN src THEN src[k] ELSE target[k]]
\* all sequences over S of length at most n
SeqsUpTo(S, n) == UNION {[1..k -> S] : k \in 0..n}
Range(s) == {s[i] : i \in DOMAIN s}

(***************************************************************************)
(* Graph Adapter (src/unnamed/part_000, diagramUtils)                      *)
(***************************************************************************)
BlockTypes == {"power", "inputs", "processing", "outputs", "peripherals"}

blockPositions ==
    [power       |-> [x |-> 50,  y |-> 200],
     inputs      |-> [x |-> 350, y |-> 50],
     processing  |-> [x |-> 650, y |-> 200],
     outputs     |-> [x |-> 950, y |-> 50],
     peripherals |-> [x |-> 650, y |-> 400]]

FallbackPosition == [x |-> 400, y |-> 200]

\* blockPositions[block.type] || { x: 400, y: 200 }
BlockPosition(block) ==
    IF Has(block, "type") /\ block.type \in DOMAIN blockPositions
    THEN blockPositions[block.type]
    ELSE IF Get(block, "type") \in ObjectPrototypeKeys
    THEN InheritedMember(block.type)
    ELSE FallbackPosition

EdgeStyle     == [stroke |-> "hsl(199 89% 48%)", strokeWidth |-> 2]
EdgeMarkerEnd == [type |-> "arrowclosed", color |-> "hsl(199 89% 48%)"]

NodeOfBlock(block) ==
    Pick(block, {"id"}) @@
    [type      |-> "block",
     position  |-> BlockPosition(block),
     data      |-> Pick(block, {"type", "title", "components", "annotation"}),
     draggable |-> TRUE]

diagramToNodes(diagram) ==
    [i \in 1..Len(diagram.blocks) |-> NodeOfBlock(diagram.blocks[i])]

\* an id made of source and target only
GeneratedEdgeId_noIndex(conn, index) ==
    "edge-" \o Get(conn, "source") \o "-" \o Get(conn, "target")

\* `edge-${conn.source}-${conn.target}-${index}`
GeneratedEdgeId(conn, index) ==
    "edge-" \o Get(conn, "source") \o "-" \o Get(conn, "target") \o "-" \o ToString(index)

EdgeOfConnection(conn, index) ==
    Pick(conn, {"source", "target", "label"}) @@
    [id        |-> GeneratedEdgeId(conn, index),
     type      |-> "smoothstep",
     animated  |-> TRUE,
     style     |-> EdgeStyle,
     markerEnd |-> EdgeMarkerEnd]

connectionsToEdges(connections) ==
    [i \in 1..Len(connections) |-> EdgeOfConnection(connections[i], i - 1)]

BlockOfNode(node) ==
    Pick(node, {"id"}) @@ Pick(node.data, {"type", "title", "components", "annotation"})

\* a conversion that hands on whatever label the edge has
ConnectionOfEdge_anyLabel(edge) == Pick(edge, {"source", "target", "label"})

ConnectionOfEdge(edge) ==
    Pick(edge, {"source", "target"}) @@
    (IF TypeofString(Get(edge, "label")) THEN [label |-> edge.label] ELSE EmptyObject)

\* a slip that reads the node's own type ("block") instead of data.type
nodesToDiagram_nodeType(nds, eds) ==
    [blocks      |-> [i \in 1..Len(nds) |->
                        Pick(nds[i], {"id", "type"}) @@
                        Pick(nds[i].data, {"title", "components", "annotation"})],
     connections |-> [i \in 1..Len(eds) |-> ConnectionOfEdge(eds[i])]]

nodesToDiagram(nds, eds) ==
    [blocks      |-> [i \in 1..Len(nds) |-> BlockOfNode(nds[i])],
     connections |-> [i \in 1..Len(eds) |-> ConnectionOfEdge(eds[i])]]

(***************************************************************************)
(* generateDefaultDiagram                                                  *)
(***************************************************************************)
\* a template whose last connection names a block that is not there
generateDefaultDiagram_dangling ==
    [blocks |-> <<
        [id |-> "power-1", type |-> "power", title |-> "Power Supply",
         components |-> <<"Battery", "Voltage Regulator">>],
        [id |-> "inputs-1", type |-> "inputs", title |-> "Inputs Block",
         components |-> <<"Sensor Module", "Button Interface">>],
        [id |-> "processing-1", type |-> "processing", title |-> "Control and Processing",
         components |-> <<"Microcontroller", "Memory">>],
        [id |-> "outputs-1", type |-> "outputs", title |-> "Outputs Block",
         components |-> <<"LED Indicator", "Display">>],
        [id |-> "peripherals-1", type |-> "peripherals", title |-> "Other Peripherals",
         components |-> <<"Debug Interface", "External Connector">>] >>,
     connections |-> <<
        [source |-> "power-1", target |-> "processing-1", label |-> "VCC"],
        [source |-> "inputs-1", target |-> "processing-1", label |-> "Data"],
        [source |-> "processing-1", target |-> "outputs-1", label |-> "Control"],
        [source |-> "processing-1", target |-> "peripheral-1", label |-> "I/O"] >>]

generateDefaultDiagram ==
    [blocks |-> <<
        [id |-> "power-1", type |-> "power", title |-> "Power Supply",
         components |-> <<"Battery", "Voltage Regulator">>],
        [id |-> "inputs-1", type |-> "inputs", title |-> "Inputs Block",
         components |-> <<"Sensor Module", "Button Interface">>],
        [id |-> "processing-1", type |-> "processing", title |-> "Control and Processing",
         components |-> <<"Microcontroller", "Memory">>],
        [id |-> "outputs-1", type |-> "outputs", title |-> "Outputs Block",
         components |-> <<"LED Indicator", "Display">>],
        [id |-> "peripherals-1", type |-> "peripherals", title |-> "Other Peripherals",
         components |-> <<"Debug Interface", "External Connector">>] >>,
     connections |-> <<
        [source |-> "power-1", target |-> "processing-1", label |-> "VCC"],
        [source |-> "inputs-1", target |-> "processing-1", label |-> "Data"],
        [source |-> "processing-1", target |-> "outputs-1", label |-> "Control"],
        [source |-> "processing-1", target |-> "peripherals-1", label |-> "I/O"] >>]

(***************************************************************************)
(* Generation endpoint (src/unnamed/part_000, the serve handler)           *)
(*                                                                         *)
(* A JSON text is [json |-> "malformed"], [json |-> "null"] or             *)
(* [json |-> "value", value |-> v]: parsing throws, yields null, or yields *)
(* the object v.  A description is a tagged value [t |-> typeof, v |-> _]. *)
(***************************************************************************)
\* s.includes(sub)
Includes(s, sub) ==
    \E i \in 1..(Len(s) - Len(sub) + 1) : SubSeq(s, i, i + Len(sub) - 1) = sub

Answer(status, body, fetched) ==
    [response |-> [status |-> status, body |-> body], fetched |-> fetched]

\* the catch block: status 500 with the exception's message
Caught(message, fetched) == Answer(500, [error |-> message], fetched)

\* !description || typeof description !== "string"
DescriptionRejected(body) ==
    \/ ~Has(body, "description")
    \/ body.description.t # "string"
    \/ body.description.v = ""

\* response.ok
ResponseOk(status) == status >= 200 /\ status <= 299

\* data.choices?.[0]?.message?.tool_calls?.[0], as a sequence of 0 or 1 values
ToolCallOf(data) ==
    IF /\ Has(data, "choices") /\ Len(data.choices) >= 1
       /\ Has(data.choices[1], "message")
       /\ Has(data.choices[1].message, "tool_calls")
       /\ Len(data.choices[1].message.tool_calls) >= 1
    THEN <<data.choices[1].message.tool_calls[1]>>
    ELSE <<>>

\* a count check that only rejects too few blocks
ServeArguments_atLeastFive(arguments) ==
    IF arguments.json = "malformed"
    THEN Caught("Unexpected token in JSON", TRUE)
    ELSE IF arguments.json = "null"
    THEN Caught("Cannot read properties of null (reading 'blocks')", TRUE)
    ELSE LET diagramData == arguments.value IN
         IF ~Has(diagramData, "blocks") \/ Len(diagramData.blocks) < 5
         THEN Answer(500, [error |-> "AI did not generate exactly 5 blocks"], TRUE)
         ELSE Answer(200, [diagram |-> diagramData], TRUE)

\* lines 174-190: JSON.parse(toolCall.function.arguments) and the block count
ServeArguments(arguments) ==
    IF arguments.json = "malformed"
    THEN Caught("Unexpected token in JSON", TRUE)
    ELSE IF arguments.json = "null"
    THEN Caught("Cannot read properties of null (reading 'blocks')", TRUE)
    ELSE LET diagramData == arguments.value IN
         IF ~Has(diagramData, "blocks") \/ Len(diagramData.blocks) # 5
         THEN Answer(500, [error |-> "AI did not generate exactly 5 blocks"], TRUE)
         ELSE Answer(200, [diagram |-> diagramData], TRUE)

\* lines 161-172: response.json() and the tool call
ServeReply(up) ==
    IF up.read \in {"fails", "malformed"}
    THEN Caught("Unexpected end of JSON input", TRUE)
    ELSE IF up.read = "null"
    THEN Caught("Cannot read properties of null (reading 'choices')", TRUE)
    ELSE LET toolCall == ToolCallOf(up.data) IN
         IF toolCall = <<>>
         THEN Answer(500, [error |-> "Invalid response from AI"], TRUE)
         ELSE IF ~Has(toolCall[1], "function")
         THEN Caught("Cannot read properties of undefined (reading 'name')", TRUE)
         ELSE IF Get(toolCall[1].function, "name") # "generate_block_diagram"
         THEN Answer(500, [error |-> "Invalid response from AI"], TRUE)
         ELSE ServeArguments(toolCall[1].function.arguments)

\* an error mapping without the 402 branch
ServeUpstreamError_no402(up) ==
    IF up.read = "fails"
    THEN Caught("error reading a body from connection", TRUE)
    ELSE IF up.status = 429
    THEN Answer(429, [error |-> "Rate limit exceeded. Please try again later."], TRUE)
    ELSE Answer(500, [error |-> "Failed to generate diagram"], TRUE)

\* lines 138-159: the provider answered with a status that is not 2xx
ServeUpstreamError(up) ==
    IF up.read = "fails"
    THEN Caught("error reading a body from connection", TRUE)
    ELSE IF up.status = 429
    THEN Answer(429, [error |-> "Rate limit exceeded. Please try again later."], TRUE)
    ELSE IF up.status = 402
    THEN Answer(402, [error |-> "Usage limit reached. Please add credits."], TRUE)
    ELSE Answer(500, [error |-> "Failed to generate diagram"], TRUE)

\* the handler: req is the request, env the function's environment, up what
\* the model provider does if it is asked
Serve(req, env, up) ==
    IF req.method = "OPTIONS"
    THEN Answer(200, EmptyObject, FALSE)
    ELSE IF req.body.json = "malformed"
    THEN Caught("Unexpected end of JSON input", FALSE)
    ELSE IF req.body.json = "null"
    THEN Caught("Cannot destructure property 'description' of null", FALSE)
    ELSE IF DescriptionRejected(req.body.value)
    THEN Answer(400, [error |-> "Description is required"], FALSE)
    ELSE IF Falsy(Get(env, "LOVABLE_API_KEY"))
    THEN Answer(500, [error |-> "AI service not configured"], FALSE)
    ELSE IF up.fetch = "rejects"
    THEN Caught("error sending request", TRUE)
    ELSE IF ~ResponseOk(up.status)
    THEN ServeUpstreamError(up)
    ELSE ServeReply(up)

(***************************************************************************)
(* React Flow utilities used by DiagramCanvas (reactflow 11)               *)
(***************************************************************************)
NodeIds(nds) == {Get(nds[i], "id") : i \in DOMAIN nds}

\* getEdgeId: `reactflow__edge-${source}${sourceHandle || ''}-${target}${targetHandle || ''}`
ConnectionEdgeId(edge) ==
    "reactflow__edge-" \o edge.source \o
    (IF Falsy(Get(edge, "sourceHandle")) THEN "" ELSE edge.sourceHandle) \o "-" \o
    edge.target \o
    (IF Falsy(Get(edge, "targetHandle")) THEN "" ELSE edge.targetHandle)

\* connectionExists: same source, target and handles (no handle on both counts
\* as the same handle)
ConnectionExists(edge, eds) ==
    \E i \in DOMAIN eds :
        /\ Get(eds[i], "source") = edge.source
        /\ Get(eds[i], "target") = edge.target
        /\ \/ Get(eds[i], "sourceHandle") = Get(edge, "sourceHandle")
           \/ Falsy(Get(eds[i], "sourceHandle")) /\ Falsy(Get(edge, "sourceHandle"))
        /\ \/ Get(eds[i], "targetHandle") = Get(edge, "targetHandle")
           \/ Falsy(Get(eds[i], "targetHandle")) /\ Falsy(Get(edge, "targetHandle"))

\* an addEdge that appends without looking for an existing connection
addEdge_noLookup(edgeParams, eds) ==
    IF Falsy(Get(edgeParams, "source")) \/ Falsy(Get(edgeParams, "target"))
    THEN eds
    ELSE Append(eds, IF Has(edgeParams, "id") THEN edgeParams
                     ELSE edgeParams @@ [id |-> ConnectionEdgeId(edgeParams)])

\* addEdge(edgeParams, edges): the edges unchanged when source or target is
\* missing or the connection exists, else the edges with the new edge appended
addEdge(edgeParams, eds) ==
    IF Falsy(Get(edgeParams, "source")) \/ Falsy(Get(edgeParams, "target"))
    THEN eds
    ELSE LET edge == IF Has(edgeParams, "id") THEN edgeParams
                     ELSE edgeParams @@ [id |-> ConnectionEdgeId(edgeParams)]
         IN  IF ConnectionExists(edge, eds) THEN eds ELSE Append(eds, edge)

\* a position change that drags every node along
applyPositionChange_all(nds, nodeId, position) ==
    [i \in DOMAIN nds |-> [nds[i] EXCEPT !.position = position]]

\* applyNodeChanges for the position change of a drag
applyPositionChange(nds, nodeId, position) ==
    [i \in DOMAIN nds |->
        IF Get(nds[i], "id") = nodeId THEN [nds[i] EXCEPT !.position = position]
        ELSE nds[i]]

(***************************************************************************)
(* DiagramCanvas (src/src/components/DiagramCanvas.jsx)                    *)
(***************************************************************************)
defaultEdgeOptions ==
    [type |-> "smoothstep", animated |-> TRUE,
     style |-> EdgeStyle, markerEnd |-> EdgeMarkerEnd]

\* the connection a drag between two handles without id reports
ConnectionParams(source, target) ==
    [source |-> source, target |-> target, sourceHandle |-> Null, targetHandle |-> Null]

\* onConnect's updater: addEdge({...params, ...defaultEdgeOptions}, eds)
onConnectEdges(eds, params) ==
    addEdge(Spread(params, defaultEdgeOptions, DOMAIN defaultEdgeOptions), eds)

\* an update that replaces the data instead of merging into it
handleNodeUpdateNodes_replace(nds, nodeId, newData, ownKeys) ==
    [i \in DOMAIN nds |->
        IF Get(nds[i], "id") = nodeId THEN [nds[i] EXCEPT !.data = newData]
        ELSE nds[i]]

\* an update that also puts the node back where the layout had it
handleNodeUpdateNodes_relayout(nds, nodeId, newData, ownKeys) ==
    [i \in DOMAIN nds |->
        IF Get(nds[i], "id") = nodeId
        THEN [nds[i] EXCEPT !.data = Spread(@, newData, ownKeys),
                            !.position = BlockPosition(nds[i].data)]
        ELSE nds[i]]

\* handleNodeUpdate's updater: { ...node, data: { ...node.data, ...newData } }
handleNodeUpdateNodes(nds, nodeId, newData, ownKeys) ==
    [i \in DOMAIN nds |->
        IF Get(nds[i], "id") = nodeId
        THEN [nds[i] EXCEPT !.data = Spread(@, newData, ownKeys)]
        ELSE nds[i]]

\* handleNodeDelete's first updater
handleNodeDeleteNodes(nds, nodeId) ==
    SelectSeq(nds, LAMBDA node : Get(node, "id") # nodeId)

\* a delete that leaves the edges as they are
handleNodeDeleteEdges_keep(eds, nodeId) == eds

\* an edge filter that looks at the source only
handleNodeDeleteEdges_sourceOnly(eds, nodeId) ==
    SelectSeq(eds, LAMBDA edge : Get(edge, "source") # nodeId)

\* handleNodeDelete's second updater
handleNodeDeleteEdges(eds, nodeId) ==
    SelectSeq(eds, LAMBDA edge :
        Get(edge, "source") # nodeId /\ Get(edge, "target") # nodeId)

\* a canvas that keeps its state whatever the props become
SyncWithExternal_never(initial, current, propChanged) == current

\* "Sync with external state changes": when the prop changed and its JSON
\* differs from the state's, the state becomes the prop (records are compared
\* as JSON.stringify compares objects built with the same key order)
SyncWithExternal(initial, current, propChanged) ==
    IF propChanged /\ initial # current THEN initial ELSE current

(***************************************************************************)
(* BlockNode (src/src/components/BlockNode.jsx)                            *)
(***************************************************************************)
blockStyles == BlockTypes

\* rendering a node throws: style is undefined (line 67) or data.components
\* is undefined (line 143)
BlockNodeThrows(node) ==
    \/ ~Has(node.data, "type")
    \/ node.data.type \notin blockStyles \cup ObjectPrototypeKeys
    \/ ~Has(node.data, "components")

RenderThrows(nds) == \E i \in DOMAIN nds : BlockNodeThrows(nds[i])

(***************************************************************************)
(* Inputs: blocks, diagrams, what the model provider replies               *)
(***************************************************************************)
\* longest connection list of an input diagram
MaxConnections == 2
\* largest number of blocks in a reply of the model provider
MaxBlocks == 6

SchemaIds   == <<"power-1", "inputs-1", "processing-1", "outputs-1", "peripherals-1">>
SchemaTypes == <<"power", "inputs", "processing", "outputs", "peripherals">>

\* the i-th block's id: the ids of the default template for the first five
BlockId(i) == IF i <= 5 THEN SchemaIds[i] ELSE "extra-" \o ToString(i)
BlockType(i) == SchemaTypes[((i - 1) % 5) + 1]

\* a block of the schema: id, type, title, components, optional annotation
SchemaBlock(i, type, components, annotated) ==
    [id |-> BlockId(i), type |-> type, title |-> "Block " \o ToString(i),
     components |-> components] @@
    (IF annotated THEN [annotation |-> "note " \o ToString(i)] ELSE EmptyObject)

\* connections of the schema: source, target, optional string label
\* (parallel connections, a self connection and an empty label included)
SchemaConnections ==
    {[source |-> "power-1", target |-> "processing-1", label |-> "VCC"],
     [source |-> "power-1", target |-> "processing-1"],
     [source |-> "processing-1", target |-> "processing-1", label |-> ""],
     [source |-> "inputs-1", target |-> "outputs-1", label |-> "Data"]}

\* 5 blocks; the schema fixes the count, not the distinctness of the types
SchemaDiagrams ==
    {[blocks |-> [i \in 1..5 |->
                    SchemaBlock(i, IF distinct THEN SchemaTypes[i] ELSE "power",
                                comps, i \in annotated)],
      connections |-> conns] :
        distinct \in BOOLEAN,
        comps \in {<<"MCU">>, <<"MCU", "Memory">>},
        annotated \in SUBSET (1..5),
        conns \in SeqsUpTo(SchemaConnections, MaxConnections)}

\* categories for the layout: the five of blockPositions and others
LayoutTypes == BlockTypes \cup {"sensor", "Power", "", "constructor"}

\* a block for the layout: with a type of LayoutTypes or without type, and
\* with either of two ids, titles, components and annotations
LayoutBlock(i, type, other) ==
    (IF type = Undefined THEN EmptyObject ELSE [type |-> type]) @@
    (IF other
     THEN [id |-> "block-" \o ToString(i), title |-> "Unit", components |-> <<>>,
           annotation |-> "moved"]
     ELSE [id |-> BlockId(i), title |-> "Block " \o ToString(i),
           components |-> <<"MCU", "Memory">>])

\* connections whose label is a string, the empty string, an object or null
LabelledConnections ==
    <<[source |-> BlockId(1), target |-> BlockId(2), label |-> "SPI"],
      [source |-> BlockId(1), target |-> BlockId(2), label |-> RichLabel],
      [source |-> BlockId(2), target |-> BlockId(3), label |-> ""],
      [source |-> BlockId(3), target |-> BlockId(4), label |-> Null]>>

LayoutDiagrams ==
    {[blocks |-> [i \in 1..5 |->
                    LayoutBlock(i, IF i = 1 THEN t1 ELSE IF i = 2 THEN t2
                                   ELSE SchemaTypes[i], other)],
      connections |-> conns] :
        t1 \in LayoutTypes \cup {Undefined}, t2 \in LayoutTypes \cup {Undefined},
        other \in BOOLEAN,
        conns \in {<<>>, <<[source |-> BlockId(1), target |-> BlockId(2)]>>,
                   LabelledConnections}}

(***************************************************************************)
(* SpecAdapter: the Graph Adapter on schema-conforming diagrams            *)
(***************************************************************************)
AdapterOff ==
    /\ aPc = "off" /\ aDiagram = EmptyObject
    /\ aNodes = <<>> /\ aEdges = <<>> /\ aOut = EmptyObject

\* toPresentation, as handleGenerateDiagram and handleLoadDefault call it
AdapterToPresentation ==
    /\ aPc = "diagram"
    /\ aNodes' = diagramToNodes(aDiagram)
    /\ aEdges' = connectionsToEdges(aDiagram.connections)
    /\ aPc' = "presentation"
    /\ UNCHANGED <<aDiagram, aOut>>

\* toCanonical, as exportDiagramAsJson calls it
AdapterToCanonical ==
    /\ aPc = "presentation"
    /\ aOut' = nodesToDiagram(aNodes, aEdges)
    /\ aPc' = "canonical"
    /\ UNCHANGED <<aDiagram, aNodes, aEdges>>

(***************************************************************************)
(* SpecServe: one request to the generation endpoint                       *)
(***************************************************************************)
JsonValue(v) == [json |-> "value", value |-> v]
Str(v) == [t |-> "string", v |-> v]

\* a reply of the model: k blocks that follow the tool schema
ReplyDiagram(k) ==
    [blocks |-> [i \in 1..k |-> SchemaBlock(i, BlockType(i), <<"MCU", "Memory">>, i = 3)],
     connections |-> <<[source |-> BlockId(1), target |-> BlockId(3), label |-> "VCC"],
                       [source |-> BlockId(3), target |-> BlockId(4)]>>]

\* the provider's JSON body holding one tool call
ToolReply(name, arguments) ==
    [choices |-> <<[message |-> [tool_calls |->
        <<[function |-> [name |-> name, arguments |-> arguments]]>>]]>>]

GenerateTool == "generate_block_diagram"

RequestBodies ==
    {[json |-> "malformed"], [json |-> "null"]} \cup
    {JsonValue(v) : v \in
        {EmptyObject,
         [text |-> Str("Smart doorbell")],
         [description |-> Str("")],
         [description |-> Str("Smart doorbell")],
         [description |-> Str(" ")],
         [description |-> [t |-> "number", v |-> "42"]],
         [description |-> [t |-> "object", v |-> "null"]]}}

ServeRequests ==
    {[method |-> "OPTIONS", body |-> [json |-> "malformed"]]} \cup
    {[method |-> "POST", body |-> b] : b \in RequestBodies}

ServeEnvs == {EmptyObject, [LOVABLE_API_KEY |-> ""], [LOVABLE_API_KEY |-> "secret"]}

ServeDatas ==
    {EmptyObject,
     [choices |-> <<>>],
     [choices |-> <<[message |-> [content |-> "I cannot help with that"]]>>],
     [choices |-> <<[message |-> [tool_calls |-> <<>>]]>>],
     [choices |-> <<[message |-> [tool_calls |-> <<[id |-> "call_1"]>>]]>>],
     ToolReply("other_function", JsonValue(ReplyDiagram(5))),
     ToolReply(GenerateTool, [json |-> "malformed"]),
     ToolReply(GenerateTool, [json |-> "null"]),
     ToolReply(GenerateTool, JsonValue(EmptyObject)),
     ToolReply(GenerateTool, JsonValue([connections |-> <<>>])),
     ToolReply(GenerateTool, JsonValue([blocks |-> ReplyDiagram(5).blocks]))} \cup
    {ToolReply(GenerateTool, JsonValue(ReplyDiagram(k))) : k \in 0..MaxBlocks}

ErrorStatuses == {400, 401, 402, 404, 429, 500, 503}
OkStatuses    == {200, 201}

ServeUpstreams ==
    {[fetch |-> "rejects"]} \cup
    {[fetch |-> "response", status |-> s, read |-> "fails"] :
        s \in ErrorStatuses \cup OkStatuses} \cup
    {[fetch |-> "response", status |-> s, read |-> "ok", text |-> t] :
        s \in ErrorStatuses, t \in {"", "Rate limit", "quota exceeded"}} \cup
    {[fetch |-> "response", status |-> s, read |-> r] :
        s \in OkStatuses, r \in {"malformed", "null"}} \cup
    {[fetch |-> "response", status |-> s, read |-> "object", data |-> d] :
        s \in OkStatuses, d \in ServeDatas}

ServeOff ==
    /\ sPc = "off" /\ sReq = EmptyObject /\ sEnv = EmptyObject
    /\ sUp = EmptyObject /\ sResp = EmptyObject

\* the handler runs to its Response
ServeRequest ==
    /\ sPc = "request"
    /\ sResp' = Serve(sReq, sEnv, sUp)
    /\ sPc' = "answered"
    /\ UNCHANGED <<sReq, sEnv, sUp>>

(***************************************************************************)
(* Index (src/unnamed/part_001)                                            *)
(***************************************************************************)
\* String.prototype.trim, for the blank character
RECURSIVE TrimStart(_)
TrimStart(text) ==
    IF Len(text) > 0 /\ SubSeq(text, 1, 1) = " "
    THEN TrimStart(SubSeq(text, 2, Len(text))) ELSE text
RECURSIVE TrimEnd(_)
TrimEnd(text) ==
    IF Len(text) > 0 /\ SubSeq(text, Len(text), Len(text)) = " "
    THEN TrimEnd(SubSeq(text, 1, Len(text) - 1)) ELSE text
Trim(text) == TrimEnd(TrimStart(text))

\* supabase.functions.invoke: { data, error } for the endpoint's answer; an
\* answer that is not 2xx becomes a FunctionsHttpError, a request that could
\* not be sent a FunctionsFetchError, and data is then null
FunctionsInvoke(transport, answer) ==
    IF transport = "fails"
    THEN [error |-> [message |-> "Failed to send a request to the Edge Function"]]
    ELSE IF ~ResponseOk(answer.status)
    THEN [error |-> [message |-> "Edge Function returned a non-2xx status code"]]
    ELSE [data |-> answer.body]

\* lines 46-58: the notification for a function error
ErrorToast(error) ==
    IF Has(error, "message") /\
       (Includes(error.message, "429") \/ Includes(error.message, "Rate limit"))
    THEN "Rate limit exceeded. Please wait a moment and try again."
    ELSE IF Has(error, "message") /\
            (Includes(error.message, "402") \/ Includes(error.message, "Payment"))
    THEN "Usage limit reached. Please add credits to continue."
    ELSE "Failed to generate diagram. Please try again."

\* diagramToNodes or connectionsToEdges throws: .map of undefined
ConversionThrows(diagram) ==
    ~Has(diagram, "blocks") \/ ~Has(diagram, "connections")

\* the notification handleGenerateDiagram ends with
GenerateToast(result) ==
    IF Has(result, "error") THEN ErrorToast(result.error)
    ELSE IF ~Has(result, "data") \/ ~Has(result.data, "diagram")
    THEN "Invalid response from AI. Please try again."
    ELSE IF ConversionThrows(result.data.diagram)
    THEN "An unexpected error occurred. Please try again."
    ELSE "Generated diagram with " \o ToString(Len(result.data.diagram.blocks)) \o " blocks!"

ErrorToasts ==
    {"Rate limit exceeded. Please wait a moment and try again.",
     "Usage limit reached. Please add credits to continue.",
     "Failed to generate diagram. Please try again.",
     "Invalid response from AI. Please try again.",
     "An unexpected error occurred. Please try again."}

\* a handler that adds the new nodes and edges to the ones it holds
handleGenerateDiagramState_append(result, page) ==
    IF Has(result, "error") \/ ~Has(result, "data") \/ ~Has(result.data, "diagram")
       \/ ConversionThrows(result.data.diagram)
    THEN page @@ [set |-> {}]
    ELSE [nodes |-> page.nodes \o diagramToNodes(result.data.diagram),
          edges |-> page.edges \o connectionsToEdges(result.data.diagram.connections),
          hasGenerated |-> TRUE, set |-> {"nodes", "edges", "hasGenerated"}]

\* a handler that installs a diagram only while none is shown
handleGenerateDiagramState_firstOnly(result, page) ==
    IF Has(result, "error") \/ ~Has(result, "data") \/ ~Has(result.data, "diagram")
       \/ ConversionThrows(result.data.diagram) \/ page.hasGenerated
    THEN page @@ [set |-> {}]
    ELSE [nodes |-> diagramToNodes(result.data.diagram),
          edges |-> connectionsToEdges(result.data.diagram.connections),
          hasGenerated |-> TRUE, set |-> {"nodes", "edges", "hasGenerated"}]

\* a handler that stores the nodes before it converts the connections
handleGenerateDiagramState_nodesFirst(result, page) ==
    IF Has(result, "error") \/ ~Has(result, "data") \/ ~Has(result.data, "diagram")
       \/ ~Has(result.data.diagram, "blocks")
    THEN page @@ [set |-> {}]
    ELSE IF ~Has(result.data.diagram, "connections")
    THEN [nodes |-> diagramToNodes(result.data.diagram), edges |-> page.edges,
          hasGenerated |-> page.hasGenerated, set |-> {"nodes"}]
    ELSE [nodes |-> diagramToNodes(result.data.diagram),
          edges |-> connectionsToEdges(result.data.diagram.connections),
          hasGenerated |-> TRUE, set |-> {"nodes", "edges", "hasGenerated"}]

\* a handler that invokes the function again when it reports an error
handleGenerateDiagramPending_retry(pend, i, result) ==
    IF Has(result, "error") THEN pend
    ELSE SubSeq(pend, 1, i - 1) \o SubSeq(pend, i + 1, Len(pend))

\* lines 41-44 and 76-81: the handler awaits its one invoke and returns,
\* whatever the result; pend are the invocations awaiting a response, the
\* i-th of which got result
handleGenerateDiagramPending(pend, i, result) ==
    SubSeq(pend, 1, i - 1) \o SubSeq(pend, i + 1, Len(pend))

\* lines 46-73: what handleGenerateDiagram stores once the response is there;
\* page is [nodes, edges, hasGenerated], set names the setters it called
handleGenerateDiagramState(result, page) ==
    IF Has(result, "error") \/ ~Has(result, "data") \/ ~Has(result.data, "diagram")
       \/ ConversionThrows(result.data.diagram)
    THEN page @@ [set |-> {}]
    ELSE [nodes |-> diagramToNodes(result.data.diagram),
          edges |-> connectionsToEdges(result.data.diagram.connections),
          hasGenerated |-> TRUE, set |-> {"nodes", "edges", "hasGenerated"}]

\* exportDiagramAsJson's exportData (generatedAt, the time of the export, left out)
exportDiagramAsJson(nds, eds, originalDescription) ==
    [version |-> "1.0",
     description |-> originalDescription,
     diagram |-> nodesToDiagram(nds, eds),
     reactFlowData |->
        [nodes |-> [i \in DOMAIN nds |-> Pick(nds[i], {"id", "type", "position", "data"})],
         edges |-> [i \in DOMAIN eds |-> Pick(eds[i], {"id", "source", "target", "label"})]]]

\* an export that writes a file whatever the nodes are
handleExportResult_noCheck(nds, eds, description) ==
    [refused |-> FALSE, file |-> exportDiagramAsJson(nds, eds, description)]

\* handleExport (lines 85-92): refused with an error notification when there
\* are no nodes, else the file of exportDiagramAsJson
handleExportResult(nds, eds, description) ==
    IF Len(nds) = 0 THEN [refused |-> TRUE]
    ELSE [refused |-> FALSE, file |-> exportDiagramAsJson(nds, eds, description)]

\* the canvas state after a render of the page: unmounted, freshly mounted
\* from the props, or synced with a changed prop
CanvasAfterRender(external, propChanged, wasMounted, isMounted, current) ==
    IF ~isMounted THEN <<>>
    ELSE IF ~wasMounted THEN external
    ELSE SyncWithExternal(external, current, propChanged)

\* the value the page holds once the calls of its setter in notify are applied
AfterNotify(current, setter) ==
    LET calls == SelectSeq(notify, LAMBDA call : call.set = setter) IN
    IF Len(calls) = 0 THEN current ELSE calls[Len(calls)].value

(***************************************************************************)
(* Inputs of the page and the canvas                                       *)
(***************************************************************************)
PanelTexts == {"", "  ", " Smart doorbell "}

Configured == [LOVABLE_API_KEY |-> "secret"]

\* replies with 5 blocks that do not follow the tool schema
EmptyFieldsDiagram ==
    [ReplyDiagram(5) EXCEPT !.blocks[2].title = "", !.blocks[4].components = <<>>]
MissingFieldsDiagram ==
    [blocks |-> [i \in 1..5 |->
        IF i = 2 THEN Pick(ReplyDiagram(5).blocks[i], {"id", "type", "components"})
        ELSE ReplyDiagram(5).blocks[i]],
     connections |-> <<[source |-> BlockId(1), target |-> BlockId(3), label |-> "VCC"],
                       [source |-> BlockId(3)]>>]
UnknownTypeDiagram == [ReplyDiagram(5) EXCEPT !.blocks[2].type = "sensor"]
NoComponentsDiagram ==
    [blocks |-> [i \in 1..5 |->
        IF i = 2 THEN Pick(ReplyDiagram(5).blocks[i], {"id", "type", "title"})
        ELSE ReplyDiagram(5).blocks[i]],
     connections |-> <<>>]
NoConnectionsDiagram == [blocks |-> ReplyDiagram(5).blocks]

MainDiagrams ==
    {ReplyDiagram(4), ReplyDiagram(5), EmptyFieldsDiagram,
     MissingFieldsDiagram, UnknownTypeDiagram, NoComponentsDiagram,
     NoConnectionsDiagram}

\* what happens to a request: it is not delivered, the function has no key,
\* or the provider rejects, answers an error status or replies
MainWorlds ==
    {[transport |-> "fails", env |-> Configured, up |-> [fetch |-> "rejects"]],
     [transport |-> "ok", env |-> EmptyObject, up |-> [fetch |-> "rejects"]],
     [transport |-> "ok", env |-> Configured, up |-> [fetch |-> "rejects"]]} \cup
    {[transport |-> "ok", env |-> Configured,
      up |-> [fetch |-> "response", status |-> s, read |-> "ok", text |-> ""]] :
        s \in {402, 429, 503}} \cup
    {[transport |-> "ok", env |-> Configured,
      up |-> [fetch |-> "response", status |-> 200, read |-> "object", data |-> d]] :
        d \in {[choices |-> <<[message |-> [content |-> "I cannot help with that"]]>>]}
               \cup {ToolReply(GenerateTool, JsonValue(g)) : g \in MainDiagrams}}

\* where a drag can end, which nodes are dragged, connected and edited
DragPositions == {[x |-> 120, y |-> 80]}
DragIds    == {"processing-1", "outputs-1"}
ConnectIds == {"power-1", "processing-1"}
DeleteIds  == {"power-1", "processing-1"}
EditIds    == {"processing-1"}
\* what handleSave passes: title, components and annotation (own keys)
EditOwnKeys == {"title", "components", "annotation"}
EditInputs ==
    {[title |-> "Main MCU", components |-> <<"MCU", "Flash">>, annotation |-> "3.3 V"],
     [title |-> "Main MCU", components |-> <<"MCU", "Flash">>]}
\* Connect is offered while the canvas holds fewer edges than this
MaxEdges == 5
\* handleGenerateDiagram is called while fewer calls than this await a response
MaxPending == 2

(***************************************************************************)
(* Actions of the page and the canvas                                      *)
(***************************************************************************)
\* React flushes the updates of an event before the next event is handled
Ready == ~crashed /\ notify = <<>>

\* a submit handler that does not look at isLoading
handleSubmitStarts_ignoreLoading(text, loading) == Trim(text) # ""

\* InputPanel.handleSubmit (line 25): description.trim() && !isLoading
handleSubmitStarts(text, loading) == Trim(text) # "" /\ ~loading

\* InputPanel.handleSubmit (lines 23-28) and the start of handleGenerateDiagram
Submit(text) ==
    /\ Ready
    /\ IF handleSubmitStarts(text, isLoading)
       THEN /\ isLoading' = TRUE
            /\ currentDescription' = Trim(text)
            /\ pending' = Append(pending, Trim(text))
       ELSE UNCHANGED <<isLoading, currentDescription, pending>>
    /\ lastOp' = [op |-> "submit", text |-> text,
                  started |-> handleSubmitStarts(text, isLoading)]
    /\ UNCHANGED <<nodes, edges, hasGenerated, cNodes, cEdges, notify, crashed>>

\* handleGenerateDiagram called while earlier calls may await their response
\* (lines 36-44: it has no guard of its own)
Generate(description) ==
    /\ Ready
    /\ Len(pending) < MaxPending
    /\ isLoading' = TRUE
    /\ currentDescription' = description
    /\ pending' = Append(pending, description)
    /\ lastOp' = [op |-> "generate", description |-> description]
    /\ UNCHANGED <<nodes, edges, hasGenerated, cNodes, cEdges, notify, crashed>>

\* the response to the i-th pending invocation arrives and handleGenerateDiagram
\* runs to its end
Settle(i, world) ==
    /\ Ready
    /\ i \in DOMAIN pending
    /\ LET request == [method |-> "POST",
                       body |-> JsonValue([description |-> Str(pending[i])])]
           answer == Serve(request, world.env, world.up).response
           result == FunctionsInvoke(world.transport, answer)
           page == handleGenerateDiagramState(result,
                       [nodes |-> nodes, edges |-> edges, hasGenerated |-> hasGenerated])
       IN  /\ nodes' = page.nodes
           /\ edges' = page.edges
           /\ hasGenerated' = page.hasGenerated
           /\ cNodes' = CanvasAfterRender(page.nodes, "nodes" \in page.set,
                                          hasGenerated, page.hasGenerated, cNodes)
           /\ cEdges' = CanvasAfterRender(page.edges, "edges" \in page.set,
                                          hasGenerated, page.hasGenerated, cEdges)
           /\ crashed' = (page.hasGenerated /\ RenderThrows(cNodes'))
           /\ lastOp' = [op |-> "settle", description |-> pending[i],
                         result |-> result, toast |-> GenerateToast(result)]
           /\ pending' = handleGenerateDiagramPending(pending, i, result)
    /\ isLoading' = FALSE
    /\ UNCHANGED <<currentDescription, notify>>

\* handleLoadDefault; the button is rendered while no diagram was generated
LoadDefault ==
    /\ Ready
    /\ ~hasGenerated
    /\ nodes' = diagramToNodes(generateDefaultDiagram)
    /\ edges' = connectionsToEdges(generateDefaultDiagram.connections)
    /\ hasGenerated' = TRUE
    /\ currentDescription' = "Default template diagram"
    /\ cNodes' = CanvasAfterRender(nodes', TRUE, hasGenerated, TRUE, cNodes)
    /\ cEdges' = CanvasAfterRender(edges', TRUE, hasGenerated, TRUE, cEdges)
    /\ crashed' = RenderThrows(cNodes')
    /\ lastOp' = [op |-> "loadDefault"]
    /\ UNCHANGED <<isLoading, pending, notify>>

\* handleReset; the button is part of the canvas
Reset ==
    /\ Ready
    /\ hasGenerated
    /\ nodes' = <<>>
    /\ edges' = <<>>
    /\ hasGenerated' = FALSE
    /\ currentDescription' = ""
    /\ cNodes' = CanvasAfterRender(nodes', TRUE, hasGenerated, FALSE, cNodes)
    /\ cEdges' = CanvasAfterRender(edges', TRUE, hasGenerated, FALSE, cEdges)
    /\ lastOp' = [op |-> "reset"]
    /\ UNCHANGED <<isLoading, pending, notify, crashed>>

\* handleExport; the button is part of the canvas
Export ==
    /\ Ready
    /\ hasGenerated
    /\ lastOp' = [op |-> "export"] @@ handleExportResult(nodes, edges, currentDescription)
    /\ UNCHANGED <<nodes, edges, isLoading, currentDescription, hasGenerated,
                   cNodes, cEdges, notify, crashed, pending>>

\* a drag of a node: handleNodesChange.  The first updater moves the node, the
\* second one, run by the next render, hands the nodes to the page
MoveNode(nodeId, position) ==
    /\ Ready
    /\ hasGenerated
    /\ nodeId \in NodeIds(cNodes)
    /\ cNodes' = applyPositionChange(cNodes, nodeId, position)
    /\ notify' = <<[set |-> "nodes", value |-> cNodes']>>
    /\ lastOp' = [op |-> "move", id |-> nodeId, position |-> position]
    /\ UNCHANGED <<nodes, edges, isLoading, currentDescription, hasGenerated,
                   cEdges, crashed, pending>>

\* a connect gesture: onConnect.  The updater runs in the event (eager) or in
\* the next render; it hands the new edges to the page
Connect(source, target, eager) ==
    /\ Ready
    /\ hasGenerated
    /\ source # target
    /\ {source, target} \subseteq NodeIds(cNodes)
    /\ Len(cEdges) < MaxEdges
    /\ cEdges' = onConnectEdges(cEdges, ConnectionParams(source, target))
    /\ IF eager
       THEN edges' = cEdges' /\ notify' = <<>>
       ELSE edges' = edges /\ notify' = <<[set |-> "edges", value |-> cEdges']>>
    /\ lastOp' = [op |-> "connect", source |-> source, target |-> target]
    /\ UNCHANGED <<nodes, isLoading, currentDescription, hasGenerated,
                   cNodes, crashed, pending>>

\* BlockNode.handleSave -> handleNodeUpdate
ConfirmEdit(nodeId, newData, eager) ==
    /\ Ready
    /\ hasGenerated
    /\ nodeId \in NodeIds(cNodes)
    /\ cNodes' = handleNodeUpdateNodes(cNodes, nodeId, newData, EditOwnKeys)
    /\ IF eager
       THEN nodes' = cNodes' /\ notify' = <<>>
       ELSE nodes' = nodes /\ notify' = <<[set |-> "nodes", value |-> cNodes']>>
    /\ lastOp' = [op |-> "edit", id |-> nodeId, newData |-> newData]
    /\ UNCHANGED <<edges, isLoading, currentDescription, hasGenerated,
                   cEdges, crashed, pending>>

\* handleNodeDelete: the node updater runs in the event (eager) or in the next
\* render, the edge updater in the next render; each hands its result to the
\* page
DeleteNode(nodeId, eager) ==
    /\ Ready
    /\ hasGenerated
    /\ nodeId \in NodeIds(cNodes)
    /\ cNodes' = handleNodeDeleteNodes(cNodes, nodeId)
    /\ cEdges' = handleNodeDeleteEdges(cEdges, nodeId)
    /\ IF eager
       THEN /\ nodes' = cNodes'
            /\ notify' = <<[set |-> "edges", value |-> cEdges']>>
       ELSE /\ nodes' = nodes
            /\ notify' = <<[set |-> "nodes", value |-> cNodes'],
                           [set |-> "edges", value |-> cEdges']>>
    /\ lastOp' = [op |-> "delete", id |-> nodeId]
    /\ UNCHANGED <<edges, isLoading, currentDescription, hasGenerated,
                   crashed, pending>>

\* the render that follows: the page takes the values handed to it and the
\* canvas compares its state with the props that changed
Flush ==
    /\ ~crashed
    /\ notify # <<>>
    /\ nodes' = AfterNotify(nodes, "nodes")
    /\ edges' = AfterNotify(edges, "edges")
    /\ cNodes' = SyncWithExternal(nodes', cNodes,
                    \E k \in DOMAIN notify : notify[k].set = "nodes")
    /\ cEdges' = SyncWithExternal(edges', cEdges,
                    \E k \in DOMAIN notify : notify[k].set = "edges")
    /\ notify' = <<>>
    /\ UNCHANGED <<isLoading, currentDescription, hasGenerated, crashed,
                   pending, lastOp>>

(***************************************************************************)
(* The edit session of a BlockNode (src/src/components/BlockNode.jsx)      *)
(***************************************************************************)
\* no BlockNode is rendered for the node
Unmounted == [mounted |-> FALSE]

\* lines 21-26: the state a BlockNode starts with, from the data of its node
MountBlock(data) ==
    [mounted |-> TRUE,
     isEditing |-> FALSE,
     editTitle |-> Get(data, "title"),
     editComponents |-> Get(data, "components"),
     editAnnotation |-> IF Falsy(Get(data, "annotation")) THEN "" ELSE data.annotation,
     showAnnotation |-> ~Falsy(Get(data, "annotation")),
     newComponent |-> ""]

\* the data prop of the BlockNode of node n
NodeData(nds, n) == nds[CHOOSE i \in DOMAIN nds : Get(nds[i], "id") = n].data

\* the BlockNodes after the canvas rendered nds: a node that is gone loses its
\* BlockNode, a new node id gets a fresh one, and a node id that stays keeps
\* its BlockNode with the state it has
BlocksAfterRender(blocks, nds) ==
    [n \in DOMAIN blocks |->
        IF n \notin NodeIds(nds) THEN Unmounted
        ELSE IF ~blocks[n].mounted THEN MountBlock(NodeData(nds, n))
        ELSE blocks[n]]

\* a cancel that only leaves edit mode
handleCancelBlock_keepBuffers(b, data) == [b EXCEPT !.isEditing = FALSE]

\* handleCancel (lines 43-48)
handleCancelBlock(b, data) ==
    [b EXCEPT !.editTitle = Get(data, "title"),
              !.editComponents = Get(data, "components"),
              !.editAnnotation = IF Falsy(Get(data, "annotation")) THEN ""
                                 ELSE data.annotation,
              !.isEditing = FALSE]

\* handleSave's argument (lines 33-37): annotation: editAnnotation || undefined
handleSaveData(b) ==
    [title |-> b.editTitle, components |-> b.editComponents] @@
    (IF Falsy(b.editAnnotation) THEN EmptyObject
     ELSE [annotation |-> b.editAnnotation])

\* what is typed into the title, the annotation and the new component field
EditTitles == {"Main MCU"}
EditAnnotations == {"", "3.3 V"}
NewComponentTexts == {" Flash ", " "}
\* a component is added while the edit buffer holds fewer components than this
MaxComponents == 3

BlockBase(n) ==
    /\ Ready /\ hasGenerated
    /\ blockNodes[n].mounted
\* the handlers of a BlockNode that change nothing but the BlockNode
BlockOnly(n, op, b) ==
    /\ blockNodes' = [blockNodes EXCEPT ![n] = b]
    /\ lastOp' = [op |-> op, id |-> n]
    /\ UNCHANGED <<nodes, edges, isLoading, currentDescription, hasGenerated,
                   cNodes, cEdges, notify, crashed, pending>>

\* line 120: the pencil button
StartEdit(n) ==
    /\ BlockBase(n) /\ ~blockNodes[n].isEditing
    /\ BlockOnly(n, "startEdit", [blockNodes[n] EXCEPT !.isEditing = TRUE])

\* line 127: the annotation button
ToggleAnnotation(n) ==
    /\ BlockBase(n) /\ ~blockNodes[n].isEditing
    /\ BlockOnly(n, "toggleAnnotation",
                 [blockNodes[n] EXCEPT !.showAnnotation = ~blockNodes[n].showAnnotation])

\* line 91: typing into the title field
ChangeTitle(n, text) ==
    /\ BlockBase(n) /\ blockNodes[n].isEditing
    /\ BlockOnly(n, "changeTitle", [blockNodes[n] EXCEPT !.editTitle = text])

\* line 187: typing into the annotation field, shown with the annotation
ChangeAnnotation(n, text) ==
    /\ BlockBase(n) /\ blockNodes[n].isEditing /\ blockNodes[n].showAnnotation
    /\ BlockOnly(n, "changeAnnotation", [blockNodes[n] EXCEPT !.editAnnotation = text])

\* line 167: typing into the new component field
ChangeNewComponent(n, text) ==
    /\ BlockBase(n) /\ blockNodes[n].isEditing
    /\ BlockOnly(n, "changeNewComponent", [blockNodes[n] EXCEPT !.newComponent = text])

\* handleAddComponent (lines 51-56)
AddComponent(n) ==
    /\ BlockBase(n) /\ blockNodes[n].isEditing
    /\ Len(blockNodes[n].editComponents) < MaxComponents
    /\ BlockOnly(n, "addComponent",
            IF Trim(blockNodes[n].newComponent) # ""
            THEN [blockNodes[n] EXCEPT
                    !.editComponents = Append(@, Trim(blockNodes[n].newComponent)),
                    !.newComponent = ""]
            ELSE blockNodes[n])

\* handleRemoveComponent (lines 59-61)
RemoveComponent(n, index) ==
    /\ BlockBase(n) /\ blockNodes[n].isEditing
    /\ index \in DOMAIN blockNodes[n].editComponents
    /\ BlockOnly(n, "removeComponent",
            [blockNodes[n] EXCEPT !.editComponents =
                [i \in 1..(Len(@) - 1) |-> IF i < index THEN @[i] ELSE @[i + 1]]])

\* handleCancel; lastOp tells whether the edit buffers held changes
CancelEdit(n) ==
    /\ BlockBase(n) /\ blockNodes[n].isEditing
    /\ blockNodes' = [blockNodes EXCEPT
                        ![n] = handleCancelBlock(blockNodes[n], NodeData(cNodes, n))]
    /\ lastOp' = [op |-> "cancelEdit", id |-> n,
                  dirty |-> (handleSaveData(blockNodes[n]) #
                             handleSaveData(MountBlock(NodeData(cNodes, n))))]
    /\ UNCHANGED <<nodes, edges, isLoading, currentDescription, hasGenerated,
                   cNodes, cEdges, notify, crashed, pending>>

\* handleSave: onUpdate(id, ...) is handleNodeUpdate, then edit mode is left
SaveEdit(n, eager) ==
    /\ BlockBase(n) /\ blockNodes[n].isEditing
    /\ ConfirmEdit(n, handleSaveData(blockNodes[n]), eager)
    /\ blockNodes' = [blockNodes EXCEPT ![n].isEditing = FALSE]

(***************************************************************************)
(* Specifications                                                          *)
(***************************************************************************)
\* no BlockNode is followed
BlockOff == blockNodes = [n \in EditIds |-> Unmounted]

UiOff ==
    /\ nodes = <<>> /\ edges = <<>> /\ isLoading = FALSE
    /\ currentDescription = "" /\ hasGenerated = FALSE
    /\ cNodes = <<>> /\ cEdges = <<>> /\ notify = <<>> /\ crashed = FALSE
    /\ pending = <<>> /\ lastOp = [op |-> "none"]

InitAdapter ==
    /\ aPc = "diagram" /\ aDiagram \in SchemaDiagrams
    /\ aNodes = <<>> /\ aEdges = <<>> /\ aOut = EmptyObject
    /\ ServeOff /\ UiOff /\ BlockOff

NextAdapter ==
    \/ AdapterToPresentation /\ UNCHANGED <<uiVars, blockVars, serveVars>>
    \/ AdapterToCanonical /\ UNCHANGED <<uiVars, blockVars, serveVars>>

SpecAdapter == InitAdapter /\ [][NextAdapter]_vars

\* the Graph Adapter on diagrams with any category
InitLayout ==
    /\ aPc = "diagram" /\ aDiagram \in LayoutDiagrams
    /\ aNodes = <<>> /\ aEdges = <<>> /\ aOut = EmptyObject
    /\ ServeOff /\ UiOff /\ BlockOff

SpecLayout == InitLayout /\ [][NextAdapter]_vars

InitServe ==
    /\ sPc = "request" /\ sReq \in ServeRequests /\ sEnv \in ServeEnvs
    /\ sUp \in ServeUpstreams /\ sResp = EmptyObject
    /\ AdapterOff /\ UiOff /\ BlockOff

NextServe == ServeRequest /\ UNCHANGED <<uiVars, blockVars, adapterVars>>

SpecServe == InitServe /\ [][NextServe]_vars

Init == UiOff /\ BlockOff /\ ServeOff /\ AdapterOff

Next ==
    \/ \E text \in PanelTexts : Submit(text) /\ UNCHANGED <<blockVars, serveVars, adapterVars>>
    \/ \E i \in 1..Len(pending), world \in MainWorlds :
          Settle(i, world) /\ UNCHANGED <<blockVars, serveVars, adapterVars>>
    \/ LoadDefault /\ UNCHANGED <<blockVars, serveVars, adapterVars>>
    \/ Reset /\ UNCHANGED <<blockVars, serveVars, adapterVars>>
    \/ Export /\ UNCHANGED <<blockVars, serveVars, adapterVars>>
    \/ \E nodeId \in DragIds, position \in DragPositions :
          MoveNode(nodeId, position) /\ UNCHANGED <<blockVars, serveVars, adapterVars>>
    \/ \E source \in ConnectIds, target \in ConnectIds, eager \in BOOLEAN :
          Connect(source, target, eager) /\ UNCHANGED <<blockVars, serveVars, adapterVars>>
    \/ \E nodeId \in EditIds, newData \in EditInputs, eager \in BOOLEAN :
          ConfirmEdit(nodeId, newData, eager) /\ UNCHANGED <<blockVars, serveVars, adapterVars>>
    \/ \E nodeId \in DeleteIds, eager \in BOOLEAN :
          DeleteNode(nodeId, eager) /\ UNCHANGED <<blockVars, serveVars, adapterVars>>
    \/ Flush /\ UNCHANGED <<blockVars, serveVars, adapterVars>>

Spec == Init /\ [][Next]_vars

\* the page and the canvas with the BlockNode of the nodes in EditIds
Rendered == blockNodes' = BlocksAfterRender(blockNodes, cNodes')

\* the description submitted and what happens to the request while a
\* BlockNode is followed: the provider replies with a diagram whose blocks
\* have the ids of the template's
EditDescriptions == {"Smart doorbell"}
EditWorlds ==
    {[transport |-> "ok", env |-> Configured,
      up |-> [fetch |-> "response", status |-> 200, read |-> "object",
              data |-> ToolReply(GenerateTool, JsonValue(ReplyDiagram(5)))]]}

\* the edit session of a BlockNode across a Replace: the page, the canvas and
\* the BlockNode with a generation that succeeds while the canvas is shown
NextReplaceEdit ==
    \/ \E text \in EditDescriptions :
          Submit(text) /\ UNCHANGED <<blockVars, serveVars, adapterVars>>
    \/ \E i \in 1..Len(pending), world \in EditWorlds :
          Settle(i, world) /\ Rendered /\ UNCHANGED <<serveVars, adapterVars>>
    \/ LoadDefault /\ Rendered /\ UNCHANGED <<serveVars, adapterVars>>
    \/ Reset /\ Rendered /\ UNCHANGED <<serveVars, adapterVars>>
    \/ Flush /\ Rendered /\ UNCHANGED <<serveVars, adapterVars>>
    \/ \E n \in EditIds : StartEdit(n) /\ UNCHANGED <<serveVars, adapterVars>>
    \/ \E n \in EditIds, text \in EditTitles :
          ChangeTitle(n, text) /\ UNCHANGED <<serveVars, adapterVars>>
    \/ \E n \in EditIds : CancelEdit(n) /\ UNCHANGED <<serveVars, adapterVars>>
    \/ \E n \in EditIds, eager \in BOOLEAN :
          SaveEdit(n, eager) /\ UNCHANGED <<serveVars, adapterVars>>

SpecReplaceEdit == Init /\ [][NextReplaceEdit]_vars

NextEdit ==
    \/ LoadDefault /\ Rendered /\ UNCHANGED <<serveVars, adapterVars>>
    \/ Reset /\ Rendered /\ UNCHANGED <<serveVars, adapterVars>>
    \/ Flush /\ Rendered /\ UNCHANGED <<serveVars, adapterVars>>
    \/ \E n \in EditIds : StartEdit(n) /\ UNCHANGED <<serveVars, adapterVars>>
    \/ \E n \in EditIds : ToggleAnnotation(n) /\ UNCHANGED <<serveVars, adapterVars>>
    \/ \E n \in EditIds, text \in EditTitles :
          ChangeTitle(n, text) /\ UNCHANGED <<serveVars, adapterVars>>
    \/ \E n \in EditIds, text \in EditAnnotations :
          ChangeAnnotation(n, text) /\ UNCHANGED <<serveVars, adapterVars>>
    \/ \E n \in EditIds, text \in NewComponentTexts :
          ChangeNewComponent(n, text) /\ UNCHANGED <<serveVars, adapterVars>>
    \/ \E n \in EditIds : AddComponent(n) /\ UNCHANGED <<serveVars, adapterVars>>
    \/ \E n \in EditIds, index \in 1..MaxComponents :
          RemoveComponent(n, index) /\ UNCHANGED <<serveVars, adapterVars>>
    \/ \E n \in EditIds : CancelEdit(n) /\ UNCHANGED <<serveVars, adapterVars>>
    \/ \E n \in EditIds, eager \in BOOLEAN :
          SaveEdit(n, eager) /\ UNCHANGED <<serveVars, adapterVars>>

SpecEdit == Init /\ [][NextEdit]_vars

\* the page with handleGenerateDiagram called directly, also while earlier
\* calls await their response, and the responses arriving in any order
Descriptions == {"Smart doorbell", "Bluetooth speaker"}

\* a second well-formed reply
OtherDiagram ==
    [blocks |-> [i \in 1..5 |-> SchemaBlock(i, BlockType(i), <<"ESP32">>, FALSE)],
     connections |-> <<[source |-> BlockId(2), target |-> BlockId(3), label |-> "I2C"]>>]

OverlapWorlds ==
    {[transport |-> "ok", env |-> Configured,
      up |-> [fetch |-> "response", status |-> 429, read |-> "ok", text |-> ""]]} \cup
    {[transport |-> "ok", env |-> Configured,
      up |-> [fetch |-> "response", status |-> 200, read |-> "object",
              data |-> ToolReply(GenerateTool, JsonValue(g))]] :
        g \in {ReplyDiagram(5), OtherDiagram}}

NextOverlap ==
    \/ \E description \in Descriptions :
          Generate(description) /\ UNCHANGED <<blockVars, serveVars, adapterVars>>
    \/ \E i \in 1..Len(pending), world \in OverlapWorlds :
          Settle(i, world) /\ UNCHANGED <<blockVars, serveVars, adapterVars>>
    \/ LoadDefault /\ UNCHANGED <<blockVars, serveVars, adapterVars>>
    \/ Reset /\ UNCHANGED <<blockVars, serveVars, adapterVars>>
    \/ Export /\ UNCHANGED <<blockVars, serveVars, adapterVars>>

SpecOverlap == Init /\ [][NextOverlap]_vars

(***************************************************************************)
(* C3: for every diagram d of the schema, converting d to nodes and edges  *)
(* and back with nodesToDiagram yields d again, blocks and connections in  *)
(* the same order.                                                         *)
(***************************************************************************)
C3_RoundTrip == aPc = "canonical" => aOut = aDiagram

\* a round trip of a diagram with annotated and unannotated blocks and with
\* labelled, unlabelled and parallel connections
C3_Witness ==
    /\ aPc = "canonical"
    /\ Has(aDiagram.blocks[1], "annotation") /\ ~Has(aDiagram.blocks[2], "annotation")
    /\ Len(aDiagram.connections) = 2
    /\ Has(aDiagram.connections[1], "label") /\ ~Has(aDiagram.connections[2], "label")
    /\ aDiagram.connections[1].source = aDiagram.connections[2].source
    /\ aDiagram.connections[1].target = aDiagram.connections[2].target
    /\ Len(aNodes) = 5 /\ Len(aEdges) = 2

(***************************************************************************)
(* C6: every request whose description is absent, empty or not a string is *)
(* answered with status 400 and body {"error": "Description is required"}, *)
(* whether or not the API key is configured, and the model provider is not *)
(* asked.  (Stated for the POST requests; OPTIONS is the CORS preflight.)  *)
(***************************************************************************)
DescriptionMissing(req) ==
    \/ req.body.json # "value"
    \/ ~Has(req.body.value, "description")
    \/ req.body.value.description.t # "string"
    \/ req.body.value.description.v = ""

C6_DescriptionRequired ==
    (sPc = "answered" /\ sReq.method = "POST" /\ DescriptionMissing(sReq)) =>
        /\ sResp.response = [status |-> 400, body |-> [error |-> "Description is required"]]
        /\ ~sResp.fetched

\* the same for the requests whose body parses to a value other than null:
\* the part of C6 the handler does satisfy
C6_ParsedBodies ==
    (/\ sPc = "answered" /\ sReq.method = "POST" /\ sReq.body.json = "value"
     /\ DescriptionMissing(sReq)) =>
        /\ sResp.response = [status |-> 400, body |-> [error |-> "Description is required"]]
        /\ ~sResp.fetched

(***************************************************************************)
(* C7: when the model provider answers with a status s that is not 2xx     *)
(* (the answer, body included, was received), the endpoint answers 429 for *)
(* s = 429, 402 for s = 402 and 500 for every other s, with a fixed        *)
(* message that is the same whatever the provider's body says; the 429     *)
(* message contains "Rate limit".                                          *)
(***************************************************************************)
ProviderAnsweredError ==
    /\ sPc = "answered" /\ sResp.fetched
    /\ sUp.fetch = "response" /\ ~ResponseOk(sUp.status) /\ sUp.read = "ok"

ProviderReplied(up) ==
    up.fetch = "response" /\ ResponseOk(up.status) /\ up.read = "object"

FiveBlockToolCall(up) ==
    /\ ProviderReplied(up)
    /\ Has(up.data, "choices") /\ up.data.choices # <<>>
    /\ Has(up.data.choices[1], "message")
    /\ Has(up.data.choices[1].message, "tool_calls")
    /\ up.data.choices[1].message.tool_calls # <<>>
    /\ LET call == up.data.choices[1].message.tool_calls[1] IN
        /\ Has(call, "function")
        /\ call.function.name = GenerateTool
        /\ call.function.arguments.json = "value"
        /\ Has(call.function.arguments.value, "blocks")
        /\ Len(call.function.arguments.value.blocks) = 5

C8_DiagramOnlyFromFiveBlocks ==
    sPc = "answered" =>
        /\ Has(sResp.response.body, "diagram") =>
              /\ sResp.fetched /\ FiveBlockToolCall(sUp)
              /\ sResp.response.status = 200
              /\ sResp.response.body.diagram =
                    sUp.data.choices[1].message.tool_calls[1].function.arguments.value
        /\ (sResp.fetched /\ ProviderReplied(sUp) /\ ~FiveBlockToolCall(sUp)) =>
              /\ sResp.response.status = 500
              /\ DOMAIN sResp.response.body = {"error"}

\* a reply with exactly 5 blocks was answered with that diagram
C8_Witness ==
    /\ sPc = "answered" /\ FiveBlockToolCall(sUp)
    /\ Has(sResp.response.body, "diagram")
    /\ Len(sResp.response.body.diagram.blocks) = 5


(***************************************************************************)
(* Properties of the page and the canvas (specification Spec)              *)
(***************************************************************************)
WithoutNode(nds, n) == SelectSeq(nds, LAMBDA node : Get(node, "id") # n)
NotIncident(eds, n) ==
    SelectSeq(eds, LAMBDA edge : Get(edge, "source") # n /\ Get(edge, "target") # n)
Incident(eds, n) ==
    \E i \in DOMAIN eds : Get(eds[i], "source") = n \/ Get(eds[i], "target") = n

\* C1: once Delete node on n has completed, n is absent and no edge has n as
\* source or target, in the canvas working set and in the page's copy; the
\* delete keeps, in order, every other node and every edge not incident to n,
\* and the render that follows hands exactly that result to the page.
C1_DeleteCascades ==
    /\ [](lastOp.op = "delete" /\ notify = <<>> =>
            /\ lastOp.id \notin NodeIds(cNodes) \cup NodeIds(nodes)
            /\ ~Incident(cEdges, lastOp.id) /\ ~Incident(edges, lastOp.id))
    /\ [][\A n \in DeleteIds, eager \in BOOLEAN : DeleteNode(n, eager) =>
            /\ cNodes' = WithoutNode(cNodes, n)
            /\ cEdges' = NotIncident(cEdges, n)]_vars
    /\ [][lastOp.op = "delete" /\ Flush =>
            /\ nodes' = cNodes /\ edges' = cEdges
            /\ cNodes' = cNodes /\ cEdges' = cEdges]_vars

\* the delete of power-1 took the node and its one edge out of the template
C1_Witness ==
    /\ lastOp.op = "delete" /\ lastOp.id = "power-1" /\ notify = <<>>
    /\ Len(nodes) = 4 /\ Len(edges) = 3
    /\ nodes = cNodes /\ edges = cEdges

\* C2: whenever the canvas is shown and no operation is in progress, the
\* page's copy of the nodes and edges equals the canvas working set, and an
\* export file just written holds the canvas working set.
C2_ExternalCopyInSync ==
    /\ hasGenerated /\ Ready => nodes = cNodes /\ edges = cEdges
    /\ lastOp.op = "export" /\ ~lastOp.refused =>
            lastOp.file = exportDiagramAsJson(cNodes, cEdges, currentDescription)

\* a completed drag is in the page's copy
C2_Witness ==
    /\ lastOp.op = "move" /\ notify = <<>>
    /\ \E i \in DOMAIN nodes :
            Get(nodes[i], "id") = lastOp.id /\ nodes[i].position = lastOp.position

SettledWithDiagram ==
    /\ lastOp.op = "settle"
    /\ Has(lastOp.result, "data") /\ Has(lastOp.result.data, "diagram")

\* a block with a non-empty title and a non-empty components sequence
WellFormedData(data) ==
    /\ Has(data, "title") /\ data.title # ""
    /\ Has(data, "components") /\ data.components # <<>>

\* C4: a generation attempt ends in an error outcome or installs exactly 5
\* blocks, each with a non-empty title and a non-empty components sequence.
C4_InstalledWellFormed ==
    lastOp.op = "settle" =>
        \/ lastOp.toast \in ErrorToasts
        \/ /\ Len(nodes) = 5
           /\ \A i \in DOMAIN nodes : WellFormedData(nodes[i].data)

\* the tool schema's required fields and enum
SchemaViolation(diagram) ==
    \/ ~Has(diagram, "blocks")
    \/ \E i \in DOMAIN diagram.blocks :
          \/ ~({"id", "type", "title", "components"} \subseteq DOMAIN diagram.blocks[i])
          \/ diagram.blocks[i].type \notin BlockTypes
    \/ ~Has(diagram, "connections")
    \/ \E i \in DOMAIN diagram.connections :
          ~({"source", "target"} \subseteq DOMAIN diagram.connections[i])

\* C5: a model result that violates the schema (a block without id, type,
\* title or components, a type outside the enum, no connections, a connection
\* without source or target) ends in an error and is not rendered.
C5_SchemaViolationRejected ==
    SettledWithDiagram /\ SchemaViolation(lastOp.result.data.diagram) =>
        /\ lastOp.toast \in ErrorToasts
        /\ nodes # diagramToNodes(lastOp.result.data.diagram)

\* C9: a generation attempt that fails leaves nodes and edges as they are; one
\* that succeeds replaces both from the diagram of the one response.
C9_AllOrNothing ==
    [][\A i \in 1..Len(pending), world \in MainWorlds : Settle(i, world) =>
        IF lastOp'.toast \in ErrorToasts
        THEN nodes' = nodes /\ edges' = edges /\ hasGenerated' = hasGenerated
        ELSE /\ Has(lastOp'.result, "data") /\ Has(lastOp'.result.data, "diagram")
             /\ nodes' = diagramToNodes(lastOp'.result.data.diagram)
             /\ edges' = connectionsToEdges(lastOp'.result.data.diagram.connections)]_vars

\* a response whose conversion throws arrived while a diagram was shown
C9_Witness ==
    /\ lastOp.op = "settle"
    /\ lastOp.toast = "An unexpected error occurred. Please try again."
    /\ hasGenerated /\ Len(nodes) = 5 /\ Len(edges) > 0

\* the edge a Connect from source to target adds
ConnectedEdge(source, target) ==
    [id |-> "reactflow__edge-" \o source \o "-" \o target,
     source |-> source, target |-> target,
     sourceHandle |-> Null, targetHandle |-> Null,
     type |-> "smoothstep", animated |-> TRUE,
     style |-> EdgeStyle, markerEnd |-> EdgeMarkerEnd]

SameEnds(eds, source, target) ==
    \E i \in DOMAIN eds :
        Get(eds[i], "source") = source /\ Get(eds[i], "target") = target

\* C10: every Connect from s to t appends one edge s->t with the default
\* style, also when an edge from s to t exists.
C10_ConnectAlwaysAppends ==
    [][\A s \in ConnectIds, t \in ConnectIds, eager \in BOOLEAN :
        Connect(s, t, eager) => cEdges' = Append(cEdges, ConnectedEdge(s, t))]_vars

\* C10 as the code has it: a Connect from s to t appends one edge s->t with
\* the default style unless an edge from s to t exists, and then leaves the
\* edges as they are.
C10_ConnectAppendsUnlessExists ==
    [][\A s \in ConnectIds, t \in ConnectIds, eager \in BOOLEAN :
        Connect(s, t, eager) =>
            cEdges' = IF SameEnds(cEdges, s, t) THEN cEdges
                      ELSE Append(cEdges, ConnectedEdge(s, t))]_vars

\* a Connect between two connected nodes has added no edge
C10_Witness ==
    /\ lastOp.op = "connect" /\ notify = <<>>
    /\ SameEnds(cEdges, lastOp.source, lastOp.target)
    /\ \A i \in DOMAIN cEdges :
            cEdges[i].id # ConnectedEdge(lastOp.source, lastOp.target).id


(***************************************************************************)
(* Properties of the edit session (specification SpecEdit)                 *)
(***************************************************************************)
IndexOfNode(nds, n) == CHOOSE i \in DOMAIN nds : Get(nds[i], "id") = n

\* the title, components and annotation a node stores (no annotation and an
\* empty annotation are the same: the code reads data.annotation || "")
StoredFields(data) ==
    [title |-> Get(data, "title"), components |-> Get(data, "components"),
     annotation |-> IF Falsy(Get(data, "annotation")) THEN "" ELSE data.annotation]
BufferFields(b) ==
    [title |-> b.editTitle, components |-> b.editComponents,
     annotation |-> b.editAnnotation]

\* C11: confirming an edit of node n stores the edited title, components and
\* annotation in n and leaves n's id, type and position as they are; every
\* other node and every edge is unchanged; once the confirm has completed the
\* page's copy holds the same.
C11_ConfirmEditFrame ==
    /\ [][\A n \in EditIds, eager \in BOOLEAN : SaveEdit(n, eager) =>
            LET i == IndexOfNode(cNodes, n) IN
            /\ StoredFields(cNodes'[i].data) = BufferFields(blockNodes[n])
            /\ DOMAIN cNodes' = DOMAIN cNodes
            /\ cNodes'[i].id = n
            /\ cNodes'[i].type = cNodes[i].type
            /\ Get(cNodes'[i].data, "type") = Get(cNodes[i].data, "type")
            /\ cNodes'[i].position = cNodes[i].position
            /\ \A j \in DOMAIN cNodes : j # i => cNodes'[j] = cNodes[j]
            /\ cEdges' = cEdges /\ edges' = edges]_vars
    /\ [](lastOp.op = "edit" /\ notify = <<>> =>
            /\ nodes = cNodes /\ edges = cEdges
            /\ StoredFields(NodeData(nodes, lastOp.id)) =
                    StoredFields(lastOp.newData))

\* an edit that changed the title, the components and the annotation is stored
C11_Witness ==
    /\ lastOp.op = "edit" /\ notify = <<>>
    /\ StoredFields(NodeData(nodes, lastOp.id)) =
            [title |-> "Main MCU", components |-> <<"Memory", "Flash">>,
             annotation |-> "3.3 V"]
    /\ NodeData(nodes, lastOp.id).type = "processing"

\* C12: cancelling an edit of node n leaves the working set and the page's
\* copy unchanged, leaves edit mode and sets the edit buffers to n's stored
\* title, components and annotation; the edit session that follows starts
\* from these.
C12_CancelRestores ==
    /\ [][\A n \in EditIds : CancelEdit(n) =>
            /\ UNCHANGED <<nodes, edges, cNodes, cEdges, notify>>
            /\ ~blockNodes'[n].isEditing
            /\ BufferFields(blockNodes'[n]) = StoredFields(NodeData(cNodes, n))]_vars
    /\ [][\A n \in EditIds : lastOp.op = "cancelEdit" /\ StartEdit(n) =>
            /\ blockNodes'[n].isEditing
            /\ BufferFields(blockNodes'[n]) = StoredFields(NodeData(cNodes', n))]_vars

\* an edit session that had changed the buffers was cancelled
C12_Witness ==
    /\ lastOp.op = "cancelEdit" /\ lastOp.dirty
    /\ ~blockNodes[lastOp.id].isEditing
    /\ BufferFields(blockNodes[lastOp.id]) = StoredFields(NodeData(cNodes, lastOp.id))


(***************************************************************************)
(* Replace and Reset (specification Spec)                                  *)
(***************************************************************************)
Installed(diagram) ==
    /\ nodes = diagramToNodes(diagram)
    /\ edges = connectionsToEdges(diagram.connections)
    /\ cNodes = nodes /\ cEdges = edges

\* C13: after a successful generation or a template load the canvas working
\* set and the page's copy are exactly the nodes and edges converted from the
\* new diagram, whatever was shown, dragged, connected, edited or deleted
\* before.
C13_ReplaceInstallsExactly ==
    /\ lastOp.op = "settle" /\ lastOp.toast \notin ErrorToasts =>
            Installed(lastOp.result.data.diagram)
    /\ lastOp.op = "loadDefault" => Installed(generateDefaultDiagram)

\* a generated diagram is installed
C13_Witness ==
    /\ lastOp.op = "settle" /\ lastOp.toast \notin ErrorToasts
    /\ Installed(ReplyDiagram(5))
    /\ ~crashed

\* C14: Reset leaves no node and no edge, in the page and in the canvas,
\* clears the description and the generated flag, and handleExport refuses
\* to export what is left.
C14_ResetClears ==
    lastOp.op = "reset" =>
        /\ nodes = <<>> /\ edges = <<>> /\ cNodes = <<>> /\ cEdges = <<>>
        /\ currentDescription = "" /\ ~hasGenerated
        /\ handleExportResult(nodes, edges, currentDescription) = [refused |-> TRUE]

\* a Reset while a request is pending
C14_Witness ==
    /\ lastOp.op = "reset" /\ isLoading /\ Len(pending) = 1
    /\ nodes = <<>> /\ ~hasGenerated


(***************************************************************************)
(* Move (specification Spec)                                               *)
(***************************************************************************)
\* C15: moving node n changes the position of n and nothing else: n keeps
\* its id, type and data, every other node and every edge is unchanged, in
\* the canvas and, once the move has completed, in the page's copy.
C15_MoveFrame ==
    /\ [][\A n \in DragIds, position \in DragPositions : MoveNode(n, position) =>
            /\ DOMAIN cNodes' = DOMAIN cNodes
            /\ \A i \in DOMAIN cNodes :
                    IF Get(cNodes[i], "id") = n
                    THEN /\ cNodes'[i].position = position
                         /\ Pick(cNodes'[i], DOMAIN cNodes'[i] \ {"position"}) =
                                Pick(cNodes[i], DOMAIN cNodes[i] \ {"position"})
                    ELSE cNodes'[i] = cNodes[i]
            /\ cEdges' = cEdges /\ edges' = edges]_vars
    /\ [][lastOp.op = "move" /\ Flush =>
            /\ nodes' = cNodes /\ cNodes' = cNodes
            /\ edges' = edges /\ cEdges' = cEdges]_vars

\* a completed move of one node, another node still where the layout put it
C15_Witness ==
    /\ lastOp.op = "move" /\ notify = <<>> /\ nodes = cNodes
    /\ \E i, j \in DOMAIN nodes :
            /\ nodes[i].id = lastOp.id /\ nodes[i].position = lastOp.position
            /\ nodes[i].position # BlockPosition(nodes[i].data)
            /\ nodes[j].id # lastOp.id
            /\ nodes[j].position = BlockPosition(nodes[j].data)


(***************************************************************************)
(* Layout (specification SpecLayout)                                       *)
(***************************************************************************)
\* the coordinate the layout names for a category
LayoutCoordinate(type) ==
    CASE type = "power"       -> [x |-> 50,  y |-> 200]
      [] type = "inputs"      -> [x |-> 350, y |-> 50]
      [] type = "processing"  -> [x |-> 650, y |-> 200]
      [] type = "outputs"     -> [x |-> 950, y |-> 50]
      [] type = "peripherals" -> [x |-> 650, y |-> 400]
      [] OTHER                -> [x |-> 400, y |-> 200]

Converted == aPc \in {"presentation", "canonical"}

\* C16: the position of a block at load time is the coordinate of its
\* category, the fallback (400,200) for every category that is not one of
\* the five, whatever the block's id, title and components and whatever the
\* connections.
C16_LayoutByCategory ==
    Converted =>
        \A i \in DOMAIN aNodes :
            aNodes[i].position = LayoutCoordinate(Get(aDiagram.blocks[i], "type"))

\* the same for the categories that are not names of Object.prototype
\* members: the part of C16 the code satisfies
C16_OwnCategories ==
    Converted =>
        \A i \in DOMAIN aNodes :
            Get(aDiagram.blocks[i], "type") \notin ObjectPrototypeKeys =>
                aNodes[i].position = LayoutCoordinate(Get(aDiagram.blocks[i], "type"))


(***************************************************************************)
(* Default template (specification Spec)                                   *)
(***************************************************************************)
\* the category of the node with the given id
CategoryOf(nds, nodeId) == NodeData(nds, nodeId).type

\* C17: loading the default template installs 5 blocks, one of each
\* category, and the 4 connections power->processing, inputs->processing,
\* processing->outputs, processing->peripherals between these blocks; the
\* load starts no generation request and happens whether or not a request is
\* pending.
C17_DefaultTemplate ==
    /\ [](lastOp.op = "loadDefault" =>
            /\ Len(nodes) = 5 /\ Cardinality(NodeIds(nodes)) = 5
            /\ {nodes[i].data.type : i \in DOMAIN nodes} = BlockTypes
            /\ Len(edges) = 4
            /\ \A i \in DOMAIN edges :
                    {edges[i].source, edges[i].target} \subseteq NodeIds(nodes)
            /\ {<<CategoryOf(nodes, edges[i].source), CategoryOf(nodes, edges[i].target)>> :
                    i \in DOMAIN edges} =
                {<<"power", "processing">>, <<"inputs", "processing">>,
                 <<"processing", "outputs">>, <<"processing", "peripherals">>}
            /\ cNodes = nodes /\ cEdges = edges /\ hasGenerated)
    /\ [][LoadDefault => UNCHANGED <<pending, isLoading>>]_vars

\* the template was loaded while a generation request was pending
C17_Witness ==
    /\ lastOp.op = "loadDefault" /\ isLoading /\ Len(pending) = 1
    /\ Len(nodes) = 5 /\ Len(edges) = 4


(***************************************************************************)
(* Error notifications, end to end (specification Spec)                    *)
(***************************************************************************)
\* the provider was asked and answered with this status
ProviderStatus(world, status) ==
    /\ world.transport = "ok" /\ Has(world.env, "LOVABLE_API_KEY")
    /\ world.up.fetch = "response" /\ world.up.status = status

SpecificErrorToasts ==
    {"Rate limit exceeded. Please wait a moment and try again.",
     "Usage limit reached. Please add credits to continue."}

\* C18: a provider status 429 ends in the rate-limit notification, a provider
\* status 402 in the usage-limit notification, every other failure in one of
\* the general failure notifications; no failure leaves an exception
\* unhandled.
C18_ErrorNotificationsEndToEnd ==
    [][\A i \in 1..Len(pending), world \in MainWorlds : Settle(i, world) =>
        /\ ProviderStatus(world, 429) =>
                lastOp'.toast = "Rate limit exceeded. Please wait a moment and try again."
        /\ ProviderStatus(world, 402) =>
                lastOp'.toast = "Usage limit reached. Please add credits to continue."
        /\ (~ProviderStatus(world, 429) /\ ~ProviderStatus(world, 402)
                /\ lastOp'.toast \in ErrorToasts) =>
                lastOp'.toast \notin SpecificErrorToasts
        /\ lastOp'.toast \in ErrorToasts => ~crashed']_vars


(***************************************************************************)
(* Requests in flight (specification Spec)                                 *)
(***************************************************************************)
\* C19: with requests started through the input panel only, at most one
\* request is in flight, and exactly while isLoading; a submit while a
\* request is pending or with a description that is empty after trimming
\* starts no request and changes nothing.
C19_OneRequestInFlight ==
    /\ [](Len(pending) <= 1 /\ (isLoading <=> Len(pending) = 1))
    /\ [][\A text \in PanelTexts :
            (Submit(text) /\ (isLoading \/ Trim(text) = "")) =>
                UNCHANGED <<pending, isLoading, currentDescription, nodes, edges>>]_vars
    /\ [][\A text \in PanelTexts :
            (Submit(text) /\ ~isLoading /\ Trim(text) # "") =>
                pending' = <<Trim(text)>> /\ isLoading']_vars

\* a submit of a description while a request was pending started nothing
C19_Witness ==
    /\ lastOp.op = "submit" /\ Trim(lastOp.text) # "" /\ ~lastOp.started
    /\ isLoading /\ Len(pending) = 1


(***************************************************************************)
(* Overlapping requests (specification SpecOverlap)                        *)
(***************************************************************************)
\* C20: handleGenerateDiagram does not guard overlapping calls: each response
\* with a diagram is installed when it arrives, whichever call it answers,
\* so the response that arrives last decides the working set, also when it
\* answers the older call.
C20_LateResponseOverwrites ==
    [][\A i \in 1..Len(pending), world \in OverlapWorlds :
        (Settle(i, world) /\ lastOp'.toast \notin ErrorToasts) =>
            /\ nodes' = diagramToNodes(lastOp'.result.data.diagram)
            /\ edges' = connectionsToEdges(lastOp'.result.data.diagram.connections)
            /\ cNodes' = nodes' /\ cEdges' = edges'
            /\ pending' = SubSeq(pending, 1, i - 1) \o
                          SubSeq(pending, i + 1, Len(pending))]_vars

\* the response to the older call arrived after the newer call's diagram was
\* installed and replaced it: the working set is the older call's diagram
\* under the newer call's description
C20_Witness ==
    /\ lastOp.op = "settle" /\ lastOp.toast \notin ErrorToasts
    /\ lastOp.description = "Smart doorbell"
    /\ currentDescription = "Bluetooth speaker"
    /\ pending = <<>>
    /\ nodes = diagramToNodes(ReplyDiagram(5)) /\ cNodes = nodes


(***************************************************************************)
(* One request per attempt (specification Spec)                            *)
(***************************************************************************)
WithoutIndex(s, i) == SubSeq(s, 1, i - 1) \o SubSeq(s, i + 1, Len(s))

\* C21: a generation attempt issues one request and is not retried: only a
\* submit adds a request, and it adds one; when the response arrives, with
\* whatever outcome, that request is gone, no request was added, the loading
\* flag is false and the submit handler accepts a description again.
C21_OneRequestNoRetry ==
    /\ [][\A i \in 1..Len(pending), world \in MainWorlds : Settle(i, world) =>
            /\ pending' = WithoutIndex(pending, i)
            /\ ~isLoading'
            /\ handleSubmitStarts(" Smart doorbell ", isLoading')]_vars
    /\ [][pending' # pending =>
            \/ lastOp'.op = "settle" /\ Len(pending') = Len(pending) - 1
            \/ /\ lastOp'.op = "submit" /\ lastOp'.started
               /\ pending' = Append(pending, Trim(lastOp'.text))]_vars
    /\ [][\A text \in PanelTexts :
            (lastOp.op = "settle" /\ Submit(text) /\ Trim(text) # "") =>
                pending' = <<Trim(text)>> /\ isLoading']_vars

\* an attempt ended with a thrown exception while a diagram was shown
C21_Witness ==
    /\ lastOp.op = "settle"
    /\ lastOp.toast = "An unexpected error occurred. Please try again."
    /\ ~isLoading /\ pending = <<>> /\ hasGenerated /\ ~crashed


(***************************************************************************)
(* nodesToDiagram (specification SpecLayout)                               *)
(***************************************************************************)
BlockKeys == {"id", "type", "title", "components", "annotation"}
ConnectionKeys == {"source", "target", "label"}
IsString(v) == v \notin {Undefined, Null, RichLabel}

\* C22: nodesToDiagram yields one block per node, holding the node's id and
\* its data's type, title, components and annotation and nothing else, and
\* one connection per edge, holding the edge's source and target and nothing
\* else but the label, which is the edge's label when that is a string and
\* is undefined when it is not.
C22_CanonicalFields ==
    aPc = "canonical" =>
        /\ Len(aOut.blocks) = Len(aNodes)
        /\ \A i \in DOMAIN aNodes :
                /\ DOMAIN aOut.blocks[i] \subseteq BlockKeys
                /\ Get(aOut.blocks[i], "id") = Get(aNodes[i], "id")
                /\ \A k \in BlockKeys \ {"id"} :
                        Get(aOut.blocks[i], k) = Get(aNodes[i].data, k)
        /\ Len(aOut.connections) = Len(aEdges)
        /\ \A i \in DOMAIN aEdges :
                /\ DOMAIN aOut.connections[i] \subseteq ConnectionKeys
                /\ Get(aOut.connections[i], "source") = Get(aEdges[i], "source")
                /\ Get(aOut.connections[i], "target") = Get(aEdges[i], "target")
                /\ Get(aOut.connections[i], "label") =
                        (IF IsString(Get(aEdges[i], "label")) THEN aEdges[i].label
                         ELSE Undefined)

\* edges with a string label, an empty label, an object label and a null
\* label were converted, from nodes that hold a position
C22_Witness ==
    /\ aPc = "canonical" /\ Len(aEdges) = 4
    /\ aEdges[2].label = RichLabel /\ ~Has(aOut.connections[2], "label")
    /\ aEdges[4].label = Null /\ ~Has(aOut.connections[4], "label")
    /\ aOut.connections[1].label = "SPI" /\ aOut.connections[3].label = ""
    /\ Has(aNodes[1], "position") /\ Has(aEdges[1], "id") /\ Has(aEdges[1], "style")


(***************************************************************************)
(* Positions after the load (specification Spec)                           *)
(***************************************************************************)
PositionOf(nds, n) == nds[IndexOfNode(nds, n)].position

\* a generation that succeeded or a template load has just run
ReplaceDone(op) ==
    \/ op.op = "loadDefault"
    \/ op.op = "settle" /\ op.toast \notin ErrorToasts

\* C23: the position of a node that stays in the working set changes only
\* when that node is moved, to where it is moved, or when a Replace installs
\* a new diagram: no connect, edit, delete or move of another node and no
\* render changes it; the page's copy follows with the render after the
\* move.  An export writes each node's current position into the
\* canvas-native node list and no position into the canonical diagram.
C23_PositionsKept ==
    /\ [][\A n \in NodeIds(cNodes) \cap NodeIds(cNodes') :
            PositionOf(cNodes', n) # PositionOf(cNodes, n) =>
                \/ /\ lastOp'.op = "move" /\ lastOp'.id = n /\ lastOp' # lastOp
                   /\ PositionOf(cNodes', n) = lastOp'.position
                \/ ReplaceDone(lastOp') /\ lastOp' # lastOp]_vars
    /\ [][\A n \in NodeIds(nodes) \cap NodeIds(nodes') :
            PositionOf(nodes', n) # PositionOf(nodes, n) =>
                \/ /\ lastOp.op = "move" /\ lastOp.id = n /\ lastOp' = lastOp
                   /\ notify # <<>> /\ notify' = <<>>
                   /\ PositionOf(nodes', n) = lastOp.position
                \/ ReplaceDone(lastOp') /\ lastOp' # lastOp]_vars
    /\ [](lastOp.op = "export" /\ ~lastOp.refused =>
            /\ Len(lastOp.file.reactFlowData.nodes) = Len(cNodes)
            /\ \A i \in DOMAIN cNodes :
                    lastOp.file.reactFlowData.nodes[i].position = cNodes[i].position
            /\ \A i \in DOMAIN lastOp.file.diagram.blocks :
                    ~Has(lastOp.file.diagram.blocks[i], "position"))

\* a node that had been dragged was edited and is where it was dragged to,
\* and an export of this state carries that position in the canvas-native
\* node list only
C23_Witness ==
    /\ lastOp.op = "edit" /\ notify = <<>> /\ ~crashed
    /\ PositionOf(cNodes, lastOp.id) \in DragPositions
    /\ PositionOf(cNodes, lastOp.id) # BlockPosition(NodeData(cNodes, lastOp.id))
    /\ LET file == handleExportResult(nodes, edges, currentDescription).file
           i == IndexOfNode(nodes, lastOp.id)
       IN  /\ file.reactFlowData.nodes[i].position \in DragPositions
           /\ ~Has(file.diagram.blocks[i], "position")


(***************************************************************************)
(* Edge ids (specification SpecAdapter)                                    *)
(***************************************************************************)
\* C24: the id connectionsToEdges gives the connection at index i is
\* "edge-", its source, "-", its target, "-" and i, whatever its label and
\* whatever the other connections are, and the ids of the edges of one
\* connection list are pairwise distinct, parallel connections included.
C24_EdgeIdsDistinct ==
    Converted =>
        /\ Len(aEdges) = Len(aDiagram.connections)
        /\ \A i \in DOMAIN aEdges :
                LET conn == aDiagram.connections[i] IN
                /\ aEdges[i].id = "edge-" \o conn.source \o "-" \o conn.target
                                    \o "-" \o ToString(i - 1)
                /\ aEdges[i].id =
                        connectionsToEdges(
                            [k \in DOMAIN aEdges |->
                                [source |-> conn.source, target |-> conn.target]])[i].id
        /\ \A i, j \in DOMAIN aEdges : i # j => aEdges[i].id # aEdges[j].id

\* two connections with the same source and target, one of them labelled,
\* were converted
C24_Witness ==
    /\ aPc = "presentation" /\ Len(aEdges) = 2
    /\ aEdges[1].source = aEdges[2].source /\ aEdges[1].target = aEdges[2].target
    /\ Has(aEdges[1], "label") /\ ~Has(aEdges[2], "label")
    /\ aEdges[1].id = "edge-power-1-processing-1-0"
    /\ aEdges[2].id = "edge-power-1-processing-1-1"


(***************************************************************************)
(* Referential integrity of the edges (specification Spec)                 *)
(***************************************************************************)
\* every edge of eds has a source and a target that are ids of nodes of nds
Closed(nds, eds) ==
    \A i \in DOMAIN eds :
        /\ Has(eds[i], "source") /\ Has(eds[i], "target")
        /\ \E j \in DOMAIN nds : Has(nds[j], "id") /\ nds[j].id = eds[i].source
        /\ \E j \in DOMAIN nds : Has(nds[j], "id") /\ nds[j].id = eds[i].target

\* the connections of the diagram reference only ids of its blocks
DiagramClosed(diagram) ==
    \A i \in DOMAIN diagram.connections :
        /\ Has(diagram.connections[i], "source") /\ Has(diagram.connections[i], "target")
        /\ \E j \in DOMAIN diagram.blocks :
                Get(diagram.blocks[j], "id") = diagram.connections[i].source
        /\ \E j \in DOMAIN diagram.blocks :
                Get(diagram.blocks[j], "id") = diagram.connections[i].target

\* the diagram the last Replace installed
ReplacedBy(op) ==
    IF op.op = "loadDefault" THEN generateDefaultDiagram ELSE op.result.data.diagram

\* a step that is not a Replace
NoReplace == ~(ReplaceDone(lastOp') /\ lastOp' # lastOp)

\* C25 as the claim has it: from a loaded diagram whose connections reference
\* only its blocks, every move, connect, edit and delete and every render
\* leaves the edges of the working set and of the page's copy with a source
\* and a target among the nodes of the same set, in every state, the states
\* between the node update and the edge update of a delete included.
C25_AlsoBetweenUpdates ==
    /\ [](ReplaceDone(lastOp) /\ DiagramClosed(ReplacedBy(lastOp)) =>
            Closed(cNodes, cEdges) /\ Closed(nodes, edges))
    /\ [][Closed(cNodes, cEdges) /\ NoReplace => Closed(cNodes', cEdges')]_vars
    /\ [][Closed(nodes, edges) /\ NoReplace => Closed(nodes', edges')]_vars

\* C25 as the code has it: from a loaded diagram whose connections reference
\* only its blocks, every move, connect, edit and delete and every render
\* leaves the edges of the working set with a source and a target among the
\* nodes of the working set, in every state; the page's copy has the same
\* property whenever no operation is in progress.
C25_EdgesReferenceNodes ==
    /\ [](ReplaceDone(lastOp) /\ DiagramClosed(ReplacedBy(lastOp)) =>
            Closed(cNodes, cEdges) /\ Closed(nodes, edges))
    /\ [][Closed(cNodes, cEdges) /\ NoReplace => Closed(cNodes', cEdges')]_vars
    /\ [](Ready /\ Closed(cNodes, cEdges) => Closed(nodes, edges))

\* between the two updates of a delete: the working set has lost the node
\* and its edges, the page's copy has lost the node and holds its edges
C25_Witness ==
    /\ lastOp.op = "delete" /\ notify # <<>>
    /\ Closed(cNodes, cEdges) /\ Len(cEdges) > 0
    /\ lastOp.id \notin NodeIds(nodes)
    /\ Incident(edges, lastOp.id)
    /\ ~Closed(nodes, edges)


(***************************************************************************)
(* Reset and the requests in flight (specification Spec)                   *)
(***************************************************************************)
\* C26: a response to a request that was started before a Reset installs no
\* diagram: when the response arrives right after the Reset, so that every
\* pending request was started before it, the working set stays empty and
\* the canvas stays hidden.
C26_ResetStaysEmpty ==
    [][lastOp.op = "reset" /\ lastOp'.op = "settle" =>
        /\ ~hasGenerated'
        /\ nodes' = <<>> /\ edges' = <<>>
        /\ cNodes' = <<>> /\ cEdges' = <<>>]_vars


(***************************************************************************)
(* The description of an export (specification Spec)                       *)
(***************************************************************************)
\* the page shows the default template as the load installed it
TemplateShown ==
    /\ nodes = diagramToNodes(generateDefaultDiagram)
    /\ edges = connectionsToEdges(generateDefaultDiagram.connections)

\* C27: an export carries the description of what produced the exported
\* nodes and edges: an export of the default template as it was loaded
\* carries the template's marker, whatever generation attempts were started
\* and failed since the load.
C27_ExportDescription ==
    (lastOp.op = "export" /\ ~lastOp.refused /\ TemplateShown) =>
        lastOp.file.description = "Default template diagram"


(***************************************************************************)
(* Confirming an edit that changed nothing (specifications SpecEdit and    *)
(* SpecReplaceEdit)                                                        *)
(***************************************************************************)
\* C28: entering edit mode on node n and confirming at once, no field
\* changed, leaves the title, components and annotation n stores as they
\* were, also when n was installed by a Replace over a node with the same id.
C28_ConfirmUnchanged ==
    [][\A n \in EditIds, eager \in BOOLEAN :
        (lastOp.op = "startEdit" /\ lastOp.id = n /\ SaveEdit(n, eager)) =>
            StoredFields(NodeData(cNodes', n)) = StoredFields(NodeData(cNodes, n))]_vars


(***************************************************************************)
(* The loading flag (specification SpecOverlap)                            *)
(***************************************************************************)
\* C29: isLoading is true exactly in the states in which an invocation of
\* handleGenerateDiagram awaits its response, also when two invocations
\* overlap: it does not become false while one of them is pending.
C29_LoadingIffInFlight == isLoading <=> pending # <<>>

====
